---- MODULE Spec2Model ----
(***************************************************************************)
(* ObsidiGit: the history analyser of src/api/index.py (the HTTP variant,  *)
(* with scope filtering and directory clustering) and of                   *)
(* src/git_evolution.py (the command line variant), followed by the graph  *)
(* assembler generate_json.                                                *)
(*                                                                         *)
(* A path is a sequence of one-character strings, so that startswith,      *)
(* slicing, split('/') and the code point order used by sorted() are       *)
(* computed on characters, as Python computes them.                        *)
(***************************************************************************)
EXTENDS Integers, Sequences, FiniteSets, TLC

VARIABLES
    variant,        \* "api" (src/api/index.py) or "cli" (src/git_evolution.py)
    pc,             \* position of the request: request, first_pass, loop, done
    history,        \* the commit records the repository holds, oldest first
    raw_subpath,    \* the subpath query parameter as received
    subpath,        \* the subpath handed to analyze_history
    commits,        \* the list object handed to analyze_history (mutable)
    supplied,       \* value of that list at the time of the call
    USE_CLUSTERING, \* analyze_history's local flag
    idx,            \* number of commits the main loop has processed
    file_metadata,  \* dict: path -> {size, createdAt, owner}
    couplings,      \* Counter: (fileA, fileB) -> count
    io,             \* what the I/O layer did when asked for the commits
    response        \* what the caller of the request gets back

vars == <<variant, pc, history, raw_subpath, subpath, commits, supplied,
          USE_CLUSTERING, idx, file_metadata, couplings, io, response>>

----------------------------------------------------------------------------
(* Bounds of the model *)

\* size of a freely drawn history: its commits plus their file entries
MaxHistory == 5
\* files per commit of the generated tree (BulkHistory)
BulkChunk == 5

(* Program constant *)

\* src/api/index.py:157  USE_CLUSTERING = len(all_files) > 150
ClusterThreshold == 150

----------------------------------------------------------------------------
(* Strings *)

\* The characters occurring in the model's paths, in code point order.
Alphabet == <<".", "/", "0", "1", "2", "3", "4", "5", "6", "7", "8", "9",
              "A", "B", "C", "D", "E", "F", "G", "H", "I", "J", "K", "L", "M",
              "N", "O", "P", "Q", "R", "S", "T", "U", "V", "W", "X", "Y", "Z",
              "a", "b", "c", "d", "e", "f", "g", "h", "i", "j", "k", "l", "m",
              "n", "o", "p", "q", "r", "s", "t", "u", "v", "w", "x", "y", "z">>

\* ord(c), up to an order preserving renumbering
Ord(c) == CHOOSE i \in 1..Len(Alphabet) : Alphabet[i] = c

\* str.startswith
StartsWith(f, p) == Len(f) >= Len(p) /\ SubSeq(f, 1, Len(p)) = p

\* str.endswith
EndsWith(f, p) == Len(f) >= Len(p) /\ SubSeq(f, Len(f) - Len(p) + 1, Len(f)) = p

\* f[n:]
DropFirst(f, n) == SubSeq(f, n + 1, Len(f))

\* '/' in f
HasSlash(f) == \E i \in 1..Len(f) : f[i] = "/"

\* f.split('/')[0]
FirstSegment(f) ==
    IF HasSlash(f)
    THEN SubSeq(f, 1, (CHOOSE i \in 1..Len(f) :
                          f[i] = "/" /\ \A j \in 1..(i - 1) : f[j] # "/") - 1)
    ELSE f

\* a < b for Python strings: code point order, a proper prefix first
StrLess(a, b) ==
    LET n == IF Len(a) < Len(b) THEN Len(a) ELSE Len(b)
        diff == {i \in 1..n : a[i] # b[i]}
    IN  IF diff = {}
        THEN Len(a) < Len(b)
        ELSE LET k == CHOOSE i \in diff : \A j \in diff : i <= j
             IN  Ord(a[k]) < Ord(b[k])

StrLessEq(a, b) == a = b \/ StrLess(a, b)

\* list.sort() / sorted() on a list of strings (insertion into a sorted list)
RECURSIVE InsertSorted(_, _)
InsertSorted(x, s) ==
    IF s = <<>> THEN <<x>>
    ELSE IF StrLess(x, Head(s)) THEN <<x>> \o s
    ELSE <<Head(s)>> \o InsertSorted(x, Tail(s))

RECURSIVE SortedList(_)
SortedList(s) ==
    IF s = <<>> THEN <<>>
    ELSE InsertSorted(s[Len(s)], SortedList(SubSeq(s, 1, Len(s) - 1)))

\* set(s)
ToSet(s) == {s[i] : i \in 1..Len(s)}

----------------------------------------------------------------------------
(* Python dict / Counter: insertion ordered keys and the mapping *)

EmptyDict == [keys |-> <<>>, at |-> <<>>]

Has(d, k) == k \in DOMAIN d.at

\* d[k] = v
Put(d, k, v) ==
    IF Has(d, k)
    THEN [d EXCEPT !.at = [@ EXCEPT ![k] = v]]
    ELSE [keys |-> Append(d.keys, k), at |-> d.at @@ (k :> v)]

\* Counter.__getitem__: a missing key counts 0
CountOf(d, k) == IF Has(d, k) THEN d.at[k] ELSE 0

----------------------------------------------------------------------------
(* get_file_type *)

UpperCase == <<"A", "B", "C", "D", "E", "F", "G", "H", "I", "J", "K", "L", "M",
               "N", "O", "P", "Q", "R", "S", "T", "U", "V", "W", "X", "Y", "Z">>
LowerCase == <<"a", "b", "c", "d", "e", "f", "g", "h", "i", "j", "k", "l", "m",
               "n", "o", "p", "q", "r", "s", "t", "u", "v", "w", "x", "y", "z">>

\* str.lower
Lower(s) ==
    [i \in 1..Len(s) |->
        IF \E k \in 1..Len(UpperCase) : UpperCase[k] = s[i]
        THEN LowerCase[CHOOSE k \in 1..Len(UpperCase) : UpperCase[k] = s[i]]
        ELSE s[i]]

\* str.isupper: some cased character, and no lower-case one
IsUpper(s) ==
    /\ \E i \in 1..Len(s) : s[i] \in ToSet(UpperCase)
    /\ \A i \in 1..Len(s) : s[i] \notin ToSet(LowerCase)

\* p.rfind(c) + 1: the last position of c in p, 0 when there is none
RFind(p, c) ==
    IF \E i \in 1..Len(p) : p[i] = c
    THEN CHOOSE i \in 1..Len(p) : p[i] = c /\ \A j \in (i + 1)..Len(p) : p[j] # c
    ELSE 0

\* os.path.splitext(p)[1]: from the last dot of the last segment on, unless
\* nothing but dots precedes that dot in the segment
SplitExt(p) ==
    LET sepIndex == RFind(p, "/")
        dotIndex == RFind(p, ".")
    IN  IF dotIndex > sepIndex /\ \E k \in (sepIndex + 1)..(dotIndex - 1) : p[k] # "."
        THEN SubSeq(p, dotIndex, Len(p))
        ELSE <<>>

\* os.path.basename
Basename(p) == SubSeq(p, RFind(p, "/") + 1, Len(p))

\* the mapping literal, the same in both files
ExtMapping == <<
    <<<<".", "p", "y">>, "PYTHON">>,
    <<<<".", "j", "s">>, "JS">>,
    <<<<".", "h", "t", "m", "l">>, "HTML">>,
    <<<<".", "c", "s", "s">>, "CSS">>,
    <<<<".", "j", "s", "o", "n">>, "JSON">>,
    <<<<".", "m", "d">>, "DOCS">>,
    <<<<".", "t", "x", "t">>, "TEXT">>,
    <<<<".", "c">>, "C">>,
    <<<<".", "c", "p", "p">>, "CPP">>,
    <<<<".", "h">>, "HEADER">>,
    <<<<".", "j", "a", "v", "a">>, "JAVA">>,
    <<<<".", "g", "o">>, "GO">>,
    <<<<".", "r", "s">>, "RUST">>,
    <<<<".", "t", "s">>, "TS">>,
    <<<<".", "j", "s", "x">>, "REACT">>,
    <<<<".", "t", "s", "x">>, "REACT">>>>

\* mapping.get(ext, 'OTHER')
MappingGet(ext) ==
    IF \E k \in 1..Len(ExtMapping) : ExtMapping[k][1] = ext
    THEN ExtMapping[CHOOSE k \in 1..Len(ExtMapping) : ExtMapping[k][1] = ext][2]
    ELSE "OTHER"

\* get_file_type of src/api/index.py
GetFileTypeApi(filepath) ==
    LET ext == Lower(SplitExt(filepath))
    IN  IF ext = <<>>
        THEN IF IsUpper(Basename(filepath)) THEN "CONFIG" ELSE "FOLDER"
        ELSE MappingGet(ext)

\* get_file_type of src/git_evolution.py: the lookup alone
GetFileTypeCli(filepath) == MappingGet(Lower(SplitExt(filepath)))

----------------------------------------------------------------------------
(* analyze_history of src/api/index.py *)

DotGit == <<".", "g", "i", "t">>
Slash == <<"/">>

\* mutant of ScopePrefix: the prefix test uses subpath without the separator
ScopePrefixBare(sp) == sp

\* prefix = subpath if subpath.endswith('/') else subpath + '/'
ScopePrefix(sp) == IF EndsWith(sp, Slash) THEN sp ELSE sp \o Slash

\* the subpath filter of both passes; "if subpath:" is false for ""
ScopeFilter(files, sp) ==
    IF sp # <<>>
    THEN LET Keep(f) == StartsWith(f, ScopePrefix(sp)) \/ f = sp
         IN  SelectSeq(files, Keep)
    ELSE files

\* first pass, one commit: the files counted into all_files
FirstPassFiles(commit, sp) ==
    LET NotGit(f) == ~StartsWith(f, DotGit)
    IN  ScopeFilter(SelectSeq(commit.files, NotGit), sp)

\* all_files after the first pass
AllFiles(cs, sp) == UNION {ToSet(FirstPassFiles(cs[k], sp)) : k \in 1..Len(cs)}

\* USE_CLUSTERING = len(all_files) > 150
UseClustering(cs, sp) == Cardinality(AllFiles(cs, sp)) > ClusterThreshold

\* second pass, one commit: the "relaxed" filter and the subpath filter
LoopFiles(commit, sp) ==
    LET NotGit(f) == ~StartsWith(f, DotGit \o Slash) /\ ~(f = DotGit)
    IN  ScopeFilter(SelectSeq(commit.files, NotGit), sp)

\* mutant of ClusterOf: the separator after subpath is not stripped before the
\* split, so the first segment is empty
ClusterOfUnstripped(f, sp) ==
    IF f = sp THEN f
    ELSE LET rel_path == DropFirst(f, Len(sp))
         IN  IF HasSlash(rel_path)
             THEN IF sp # <<>>
                  THEN sp \o Slash \o FirstSegment(rel_path)
                  ELSE FirstSegment(rel_path)
             ELSE f

\* the element one file adds to clustered_files
ClusterOf(f, sp) ==
    IF f = sp THEN f
    ELSE LET rel0 == DropFirst(f, Len(sp))
             rel_path == IF StartsWith(rel0, Slash) THEN DropFirst(rel0, 1) ELSE rel0
         IN  IF HasSlash(rel_path)
             THEN IF sp # <<>>
                  THEN sp \o Slash \o FirstSegment(rel_path)
                  ELSE FirstSegment(rel_path)
             ELSE f

\* clustered_files for one commit's filtered files
ClusteredFiles(files, sp) == {ClusterOf(files[i], sp) : i \in 1..Len(files)}

\* list(a_set): the elements once each, in an order Python does not fix
ListsOf(S) == {l \in [1..Cardinality(S) -> S] : ToSet(l) = S}

\* mutant of Touch: a later touch also rewrites createdAt and owner
TouchRevising(d, f, timestamp, author) ==
    IF ~Has(d, f)
    THEN Put(d, f, [size |-> 1, createdAt |-> timestamp, owner |-> author])
    ELSE Put(d, f, [size |-> d.at[f].size + 1, createdAt |-> timestamp,
                    owner |-> author])

\* one iteration of "for f in files" of the churn loop
Touch(d, f, timestamp, author) ==
    IF ~Has(d, f)
    THEN Put(d, f, [size |-> 1, createdAt |-> timestamp, owner |-> author])
    ELSE Put(d, f, [d.at[f] EXCEPT !.size = @ + 1])

\* the churn loop "for f in files"; st holds file_metadata and the position
RECURSIVE ChurnLoop(_, _, _, _)
ChurnLoop(st, files, timestamp, author) ==
    IF st.i > Len(files) THEN st.d
    ELSE ChurnLoop([d |-> Touch(st.d, files[st.i], timestamp, author),
                    i |-> st.i + 1], files, timestamp, author)

Churn(d, files, timestamp, author) ==
    ChurnLoop([d |-> d, i |-> 1], files, timestamp, author)

\* mutant of SortedPair: the pair is stored in list order
UnsortedPair(f1, f2) == <<f1, f2>>

\* pair = tuple(sorted((f1, f2)))
SortedPair(f1, f2) == IF StrLess(f2, f1) THEN <<f2, f1>> ELSE <<f1, f2>>

\* couplings[pair] += 1
Increment(c, pair) == Put(c, pair, CountOf(c, pair) + 1)

\* the inner loop "for j in range(i + 1, len(files))"; st holds c and j
RECURSIVE CoupleRow(_, _, _)
CoupleRow(st, files, i) ==
    IF st.j > Len(files) THEN st.c
    ELSE CoupleRow([c |-> Increment(st.c, SortedPair(files[i], files[st.j])),
                    j |-> st.j + 1], files, i)

\* the outer loop "for i in range(len(files))"; st holds c and i
RECURSIVE Couple(_, _)
Couple(st, files) ==
    IF st.i > Len(files) THEN st.c
    ELSE Couple([c |-> CoupleRow([c |-> st.c, j |-> st.i + 1], files, st.i),
                 i |-> st.i + 1], files)

\* "if len(files) > 1:" and the loops
Coupling(c, files) ==
    IF Len(files) > 1 THEN Couple([c |-> c, i |-> 1], files) ELSE c

----------------------------------------------------------------------------
(* analyze_history of src/git_evolution.py *)

\* one iteration of "for f in files" of the churn loop; the entry is the node
TouchCli(d, f, timestamp, author) ==
    IF ~Has(d, f)
    THEN Put(d, f, [id |-> f, label |-> Basename(f), type |-> GetFileTypeCli(f),
                    size |-> 1, createdAt |-> timestamp, owner |-> author])
    ELSE Put(d, f, [d.at[f] EXCEPT !.size = @ + 1])

RECURSIVE ChurnLoopCli(_, _, _, _)
ChurnLoopCli(st, files, timestamp, author) ==
    IF st.i > Len(files) THEN st.d
    ELSE ChurnLoopCli([d |-> TouchCli(st.d, files[st.i], timestamp, author),
                       i |-> st.i + 1], files, timestamp, author)

ChurnCli(d, files, timestamp, author) ==
    ChurnLoopCli([d |-> d, i |-> 1], files, timestamp, author)

\* the inner loop: couplings[(f1, f2)] += 1; st holds c and j
RECURSIVE CoupleRowCli(_, _, _)
CoupleRowCli(st, files, i) ==
    IF st.j > Len(files) THEN st.c
    ELSE CoupleRowCli([c |-> Increment(st.c, <<files[i], files[st.j]>>),
                       j |-> st.j + 1], files, i)

\* the outer loop; st holds c and i
RECURSIVE CoupleCli(_, _)
CoupleCli(st, files) ==
    IF st.i > Len(files) THEN st.c
    ELSE CoupleCli([c |-> CoupleRowCli([c |-> st.c, j |-> st.i + 1], files, st.i),
                    i |-> st.i + 1], files)

CouplingCli(c, files) ==
    IF Len(files) > 1 THEN CoupleCli([c |-> c, i |-> 1], files) ELSE c

----------------------------------------------------------------------------
(* generate_json *)

\* mutant of Max: the earlier of the two times
Earlier(a, b) == IF a <= b THEN a ELSE b

\* max(a, b) on integers
Max(a, b) == IF a >= b THEN a ELSE b

\* the links loop, shared by both variants up to the weight test
LinkOf(meta, coup, pair) ==
    [source |-> pair[1], target |-> pair[2], weight |-> coup.at[pair],
     createdAt |-> Max(meta.at[pair[1]].createdAt, meta.at[pair[2]].createdAt)]

\* src/api/index.py: nodes from file_metadata.items(), links with weight >= 1
GenerateJsonApi(meta, coup) ==
    LET Emits(pair) == Has(meta, pair[1]) /\ Has(meta, pair[2]) /\ coup.at[pair] >= 1
        kept == SelectSeq(coup.keys, Emits)
    IN  [nodes |-> [n \in 1..Len(meta.keys) |->
                       [id |-> meta.keys[n],
                        label |-> meta.keys[n],
                        group |-> GetFileTypeApi(meta.keys[n]),
                        type |-> GetFileTypeApi(meta.keys[n]),
                        size |-> meta.at[meta.keys[n]].size,
                        owner |-> meta.at[meta.keys[n]].owner,
                        createdAt |-> meta.at[meta.keys[n]].createdAt]],
         links |-> [n \in 1..Len(kept) |-> LinkOf(meta, coup, kept[n])]]

\* src/git_evolution.py: nodes = list(file_metadata.values())
GenerateJsonCli(meta, coup) ==
    LET Emits(pair) == Has(meta, pair[1]) /\ Has(meta, pair[2])
        kept == SelectSeq(coup.keys, Emits)
    IN  [nodes |-> [n \in 1..Len(meta.keys) |-> meta.at[meta.keys[n]]],
         links |-> [n \in 1..Len(kept) |-> LinkOf(meta, coup, kept[n])]]

----------------------------------------------------------------------------
(* Inputs *)

Src == <<"s", "r", "c">>
SrcA == <<"s", "r", "c", "/", "a">>
SrcUiB == <<"s", "r", "c", "/", "u", "i", "/", "b">>
SrcX == <<"s", "r", "c", "x">>
GitX == <<".", "g", "i", "t", "/", "x">>
GitIgnore == <<".", "g", "i", "t", "i", "g", "n", "o", "r", "e">>

\* (timestamp, author) of a drawn commit: a later commit may carry an earlier time
Stamps == {[timestamp |-> 2, author |-> "ann"], [timestamp |-> 1, author |-> "bob"]}

CommitRecord(h, stamp, files) ==
    [hash |-> h, timestamp |-> stamp.timestamp, author |-> stamp.author,
     subject |-> "msg", files |-> files]

\* the commit sequences over a pool of paths (repeats included) whose commits
\* plus file entries number at most budget
RECURSIVE Shapes(_, _)
Shapes(pool, budget) ==
    {<<>>} \cup
    UNION {{<<[stamp |-> st, files |-> fl]>> \o rest :
               st \in Stamps, fl \in [1..n -> pool],
               rest \in Shapes(pool, budget - 1 - n)} :
           n \in 0..(budget - 1)}

\* the histories of that size, hashes numbered from first + 1
Histories(pool, budget, first) ==
    {[k \in 1..Len(sh) |-> CommitRecord(first + k, sh[k].stamp, sh[k].files)] :
        sh \in Shapes(pool, budget)}

\* A generated tree: as many files of one directory as the threshold allows
\* unclustered, committed BulkChunk at a time
BulkCount == ClusterThreshold
Digits == <<"0", "1", "2", "3", "4", "5", "6", "7", "8", "9">>
BulkPath(n) ==
    <<"s", "r", "c", "/", "g", "/">>
        \o <<Digits[(n \div 100) + 1], Digits[((n \div 10) % 10) + 1], Digits[(n % 10) + 1]>>
BulkCommits == (BulkCount + BulkChunk - 1) \div BulkChunk
BulkHistory ==
    [k \in 1..BulkCommits |->
        CommitRecord(k, [timestamp |-> 1, author |-> "gen"],
            [i \in 1..(IF k * BulkChunk <= BulkCount THEN BulkChunk
                       ELSE BulkCount - (k - 1) * BulkChunk) |->
                BulkPath((k - 1) * BulkChunk + i)])]

\* the subpath query parameter
RawSubpaths == {<<>>, Src, Src \o Slash}

NoResponse == [status |-> 0, kind |-> "none", nodes |-> <<>>, links |-> <<>>]

\* a request for variant v with subpath parameter in S on a repository in H
InitWith(V, S, H) ==
    /\ variant \in V
    /\ raw_subpath \in (IF variant = "api" THEN S ELSE {<<>>})
    /\ history \in H
    /\ pc = "request"
    /\ subpath = <<>>
    /\ commits = <<>>
    /\ supplied = <<>>
    /\ USE_CLUSTERING = FALSE
    /\ idx = 0
    /\ file_metadata = EmptyDict
    /\ couplings = EmptyDict
    /\ io = "pending"
    /\ response = NoResponse

----------------------------------------------------------------------------
(* handler.do_GET of src/api/index.py *)

\* if subpath and subpath.endswith('/'): subpath = subpath[:-1]
CleanSubpath(raw) ==
    IF raw # <<>> /\ EndsWith(raw, Slash) THEN SubSeq(raw, 1, Len(raw) - 1) ELSE raw

\* what cloning and get_commits can do
ApiOutcomes == {"ok", "no_url", "no_dulwich", "clone_failed", "repo_failed",
                "walker_failed"}

\* get_commits: the walker raising is caught and [] is returned
GetCommits(outcome, h) == IF outcome = "walker_failed" THEN <<>> ELSE h

ErrorResponse(status) == [status |-> status, kind |-> "error", nodes |-> <<>>, links |-> <<>>]

\* do_GET up to the call of analyze_history
DoGet ==
    /\ pc = "request"
    /\ variant = "api"
    /\ \E outcome \in ApiOutcomes :
        /\ io' = outcome
        /\ subpath' = CleanSubpath(raw_subpath)
        /\ IF outcome = "no_url"
           THEN /\ response' = [status |-> 200, kind |-> "health", nodes |-> <<>>,
                                links |-> <<>>]
                /\ pc' = "done"
                /\ UNCHANGED <<commits, supplied>>
           ELSE IF outcome \in {"no_dulwich", "clone_failed", "repo_failed"}
           THEN /\ response' = ErrorResponse(500)
                /\ pc' = "done"
                /\ UNCHANGED <<commits, supplied>>
           ELSE /\ commits' = GetCommits(outcome, history)
                /\ supplied' = commits'
                /\ pc' = "first_pass"
                /\ UNCHANGED response
    /\ UNCHANGED <<variant, history, raw_subpath, USE_CLUSTERING, idx,
                   file_metadata, couplings>>

\* analyze_history: the fresh accumulators and the first pass
FirstPass ==
    /\ pc = "first_pass"
    /\ file_metadata' = EmptyDict
    /\ couplings' = EmptyDict
    /\ USE_CLUSTERING' = UseClustering(commits, subpath)
    /\ idx' = 0
    /\ pc' = "loop"
    /\ UNCHANGED <<variant, history, raw_subpath, subpath, commits, supplied, io,
                   response>>

\* analyze_history: one iteration of the main loop
AnalyzeCommit ==
    /\ pc = "loop"
    /\ variant = "api"
    /\ idx < Len(commits)
    /\ LET commit == commits[idx + 1]
           kept == LoopFiles(commit, subpath)
       IN  IF kept = <<>>
           THEN UNCHANGED <<file_metadata, couplings>>
           ELSE \E files \in (IF USE_CLUSTERING
                              THEN ListsOf(ClusteredFiles(kept, subpath))
                              ELSE {kept}) :
                  /\ file_metadata' = Churn(file_metadata, files,
                                            commit.timestamp, commit.author)
                  /\ couplings' = Coupling(couplings, files)
    /\ idx' = idx + 1
    /\ UNCHANGED <<variant, pc, history, raw_subpath, subpath, commits, supplied,
                   USE_CLUSTERING, io, response>>

\* analyze_history returns; generate_json; the 200 response
Respond ==
    /\ pc = "loop"
    /\ variant = "api"
    /\ idx = Len(commits)
    /\ LET data == GenerateJsonApi(file_metadata, couplings)
       IN  response' = [status |-> 200, kind |-> "graph", nodes |-> data.nodes,
                        links |-> data.links]
    /\ pc' = "done"
    /\ UNCHANGED <<variant, history, raw_subpath, subpath, commits, supplied,
                   USE_CLUSTERING, idx, file_metadata, couplings, io>>

----------------------------------------------------------------------------
(* main of src/git_evolution.py *)

\* what clone_repo and run_git_log can do
CliOutcomes == {"ok", "clone_failed", "log_failed"}

\* main up to the call of analyze_history; a failing command ends in sys.exit(1)
Main ==
    /\ pc = "request"
    /\ variant = "cli"
    /\ \E outcome \in CliOutcomes :
        /\ io' = outcome
        /\ IF outcome = "ok"
           THEN /\ commits' = history
                /\ supplied' = history
                /\ file_metadata' = EmptyDict
                /\ couplings' = EmptyDict
                /\ idx' = 0
                /\ pc' = "loop"
                /\ UNCHANGED response
           ELSE /\ response' = ErrorResponse(1)
                /\ pc' = "done"
                /\ UNCHANGED <<commits, supplied, file_metadata, couplings, idx>>
    /\ UNCHANGED <<variant, history, raw_subpath, subpath, USE_CLUSTERING>>

\* analyze_history: one iteration of the loop; files.sort() sorts the record's list
AnalyzeCommitCli ==
    /\ pc = "loop"
    /\ variant = "cli"
    /\ idx < Len(commits)
    /\ LET commit == commits[idx + 1]
           files == SortedList(commit.files)
       IN  /\ commits' = [commits EXCEPT ![idx + 1].files = files]
           /\ file_metadata' = ChurnCli(file_metadata, files,
                                        commit.timestamp, commit.author)
           /\ couplings' = CouplingCli(couplings, files)
    /\ idx' = idx + 1
    /\ UNCHANGED <<variant, pc, history, raw_subpath, subpath, supplied,
                   USE_CLUSTERING, io, response>>

\* analyze_history returns; generate_json; evolution.json is written
WriteJson ==
    /\ pc = "loop"
    /\ variant = "cli"
    /\ idx = Len(commits)
    /\ LET data == GenerateJsonCli(file_metadata, couplings)
       IN  response' = [status |-> 0, kind |-> "graph", nodes |-> data.nodes,
                        links |-> data.links]
    /\ pc' = "done"
    /\ UNCHANGED <<variant, history, raw_subpath, subpath, commits, supplied,
                   USE_CLUSTERING, idx, file_metadata, couplings, io>>

----------------------------------------------------------------------------
(* Specifications *)

Next == DoGet \/ FirstPass \/ AnalyzeCommit \/ Respond
        \/ Main \/ AnalyzeCommitCli \/ WriteJson

\* small repositories, both variants, every subpath parameter
InitSmall == InitWith({"api", "cli"}, RawSubpaths,
                      Histories({SrcA, SrcUiB, SrcX, GitX}, MaxHistory, 0))

\* the generated tree followed by a few more commits, at the clustering threshold
InitBulk == InitWith({"api"}, RawSubpaths,
                     {BulkHistory \o h :
                         h \in Histories({SrcA, SrcUiB, GitIgnore}, MaxHistory - 2,
                                         BulkCommits)})

Init == InitSmall \/ InitBulk

Spec == Init /\ [][Next]_vars

\* generate_json on tables drawn freely: metadata over a few keys and coupling
\* entries over pairs of paths, some of which are no metadata key
MaxWeight == 2
GenKeys == {SrcA, SrcUiB, SrcX}
GenPairs == {<<SrcA, SrcUiB>>, <<SrcA, SrcX>>, <<SrcUiB, SrcX>>}

\* metadata dicts of src/api/index.py over the keys GenKeys, any insertion order
MetaDicts ==
    UNION {{[keys |-> ks, at |-> at] :
               ks \in ListsOf(D),
               at \in {[k \in D |-> [size |-> 1, createdAt |-> st[k].timestamp,
                                      owner |-> st[k].author]] : st \in [D -> Stamps]}} :
           D \in SUBSET GenKeys}

\* metadata dicts of src/git_evolution.py: the entry is the node
MetaDictsCli ==
    UNION {{[keys |-> ks, at |-> at] :
               ks \in ListsOf(D),
               at \in {[k \in D |-> [id |-> k, label |-> Basename(k),
                                      type |-> GetFileTypeCli(k), size |-> 1,
                                      createdAt |-> st[k].timestamp,
                                      owner |-> st[k].author]] : st \in [D -> Stamps]}} :
           D \in SUBSET GenKeys}

\* coupling Counters over the pairs GenPairs, counts from 1 to MaxWeight
CountDicts ==
    UNION {{[keys |-> ks, at |-> at] : ks \in ListsOf(D), at \in [D -> 1..MaxWeight]} :
           D \in SUBSET GenPairs}

InitGen ==
    /\ variant \in {"api", "cli"}
    /\ file_metadata \in (IF variant = "api" THEN MetaDicts ELSE MetaDictsCli)
    /\ couplings \in CountDicts
    /\ pc = "loop"
    /\ idx = 0
    /\ history = <<>>
    /\ raw_subpath = <<>>
    /\ subpath = <<>>
    /\ commits = <<>>
    /\ supplied = <<>>
    /\ USE_CLUSTERING = FALSE
    /\ io = "ok"
    /\ response = NoResponse

NextGen == Respond \/ WriteJson

SpecGen == InitGen /\ [][NextGen]_vars

\* get_file_type on the paths of a repository: every short path over a few
\* characters and some names of real trees, one file in one commit
MaxTypeLen == 4
TypeChars == {".", "/", "c", "C", "x", "1"}

\* the segments of a path
Segments(p) ==
    {SubSeq(p, i, j) : <<i, j>> \in
        {ij \in (1..Len(p)) \X (1..Len(p)) :
            /\ ij[1] <= ij[2]
            /\ (ij[1] = 1 \/ p[ij[1] - 1] = "/")
            /\ (ij[2] = Len(p) \/ p[ij[2] + 1] = "/")
            /\ \A k \in ij[1]..ij[2] : p[k] # "/"}}

\* a path a git tree can hold: segments that are not empty, "." or ".."
GitPath(p) ==
    /\ p # <<>>
    /\ p[1] # "/"
    /\ p[Len(p)] # "/"
    /\ \A i \in 1..(Len(p) - 1) : ~(p[i] = "/" /\ p[i + 1] = "/")
    /\ \A sg \in Segments(p) : sg \notin {<<".">>, <<".", ".">>}

Readme == <<"R", "E", "A", "D", "M", "E">>
Makefile == <<"M", "a", "k", "e", "f", "i", "l", "e">>
MainPy == <<"s", "r", "c", "/", "m", "a", "i", "n", ".", "p", "y">>
AppTsx == <<"A", "p", "p", ".", "T", "S", "X">>
TarGz == <<"x", ".", "t", "a", "r", ".", "g", "z">>
License == <<"s", "r", "c", "/", "v", "1", ".", "2", "/", "L", "I", "C", "E", "N", "S", "E">>

TypePaths ==
    {p \in UNION {[1..n -> TypeChars] : n \in 1..MaxTypeLen} : GitPath(p)}
        \cup {<<"a">> \o ExtMapping[k][1] : k \in 1..Len(ExtMapping)}
        \cup {Readme, Makefile, GitIgnore, MainPy, AppTsx, TarGz, License}

InitType ==
    InitWith({"api", "cli"}, {<<>>},
             {<<CommitRecord(1, [timestamp |-> 1, author |-> "ann"], <<p>>)>> :
                 p \in TypePaths})

SpecType == InitType /\ [][Next]_vars

----------------------------------------------------------------------------
(* What the claims speak of, stated from the inputs *)

\* analyze_history has been called and has run to its return
AnalysisReturned ==
    io \in {"ok", "walker_failed"} /\ pc \in {"loop", "done"} /\ idx = Len(commits)

\* the path is scope itself or lies under scope + "/"
UnderScope(f, sc) == sc = <<>> \/ f = sc \/ StartsWith(f, sc \o <<"/">>)

\* the path is the metadata directory or lies under it
InGitDir(f) == f = <<".", "g", "i", "t">> \/ StartsWith(f, <<".", "g", "i", "t", "/">>)

\* the path counts for this call: the command line variant filters nothing
InScope(f) == variant = "cli" \/ (UnderScope(f, subpath) /\ ~InGitDir(f))

\* an in-scope path relative to scope
Remainder(f, sc) ==
    IF sc = <<>> THEN f ELSE IF f = sc THEN <<>> ELSE SubSeq(f, Len(sc) + 2, Len(f))

\* the path lies in a subdirectory of scope
Nested(f, sc) == \E i \in 1..Len(Remainder(f, sc)) : Remainder(f, sc)[i] = "/"

\* index of the first separator of a sequence that has one
FirstSlash(r) == CHOOSE i \in 1..Len(r) : r[i] = "/" /\ \A j \in 1..(i - 1) : r[j] # "/"

\* the node that stands for an in-scope path
NodeOf(f) ==
    IF USE_CLUSTERING /\ Nested(f, subpath)
    THEN LET r == Remainder(f, subpath)
             seg == SubSeq(r, 1, FirstSlash(r) - 1)
         IN  IF subpath = <<>> THEN seg ELSE subpath \o <<"/">> \o seg
    ELSE f

\* the in-scope paths of the k-th supplied commit
ScopedFiles(k) == {f \in ToSet(supplied[k].files) : InScope(f)}

\* the nodes the k-th supplied commit touches
Touched(k) == {NodeOf(f) : f \in ScopedFiles(k)}

\* the first n supplied commits, each with the nodes it touches
TouchTable(n) == {<<k, Touched(k)>> : k \in 1..n}

\* the commits of such a table that touch a node
Touching(table, key) == {e[1] : e \in {x \in table : key \in x[2]}}

Min(S) == CHOOSE x \in S : \A y \in S : x <= y

----------------------------------------------------------------------------
(* C1 *)

\* C1: after analyze_history returns, the size of every metadata entry is the
\* number of distinct commits whose in-scope (cluster-rewritten) file list
\* contains the key; a path listed twice in one commit counts once.
C1_SizeCountsCommits ==
    AnalysisReturned =>
        LET table == TouchTable(Len(supplied))
        IN  \A key \in DOMAIN file_metadata.at :
                file_metadata.at[key].size = Cardinality(Touching(table, key))

(* C2 *)

\* C2: the coupling table never holds a key whose two paths are equal, and the
\* count of a pair of different paths is the number of commits whose in-scope
\* file set contains both.
C2_PairsCountCommits ==
    AnalysisReturned =>
        LET table == TouchTable(Len(supplied))
        IN  \A pair \in DOMAIN couplings.at :
                /\ pair[1] # pair[2]
                /\ couplings.at[pair] =
                       Cardinality(Touching(table, pair[1]) \cap Touching(table, pair[2]))

(* C3 *)

\* C3: after any prefix of the commits, every coupling key is a pair in sorted
\* order, the table never holds a pair and its reverse, and a key exists only if
\* an already processed commit's in-scope file list contains both paths.
C3_CanonicalPairs ==
    pc \in {"loop", "done"} =>
        LET together == UNION {Touched(k) \X Touched(k) : k \in 1..idx}
        IN  \A pair \in DOMAIN couplings.at :
                /\ StrLessEq(pair[1], pair[2])
                /\ pair[1] # pair[2] => <<pair[2], pair[1]>> \notin DOMAIN couplings.at
                /\ pair \in together

\* a processed commit listed two paths in descending order and their pair is
\* stored under the ascending key
C3_Witness ==
    /\ pc = "loop"
    /\ \E k \in 1..idx :
          \E i, j \in 1..Len(supplied[k].files) :
              /\ i < j
              /\ StrLess(supplied[k].files[j], supplied[k].files[i])
              /\ <<supplied[k].files[j], supplied[k].files[i]>> \in DOMAIN couplings.at

(* C4 *)

\* C4 (step): an existing metadata entry keeps its createdAt and owner and its
\* size does not decrease.
C4_EntryKept ==
    \A key \in DOMAIN file_metadata.at :
        /\ key \in DOMAIN file_metadata'.at
        /\ file_metadata'.at[key].createdAt = file_metadata.at[key].createdAt
        /\ file_metadata'.at[key].owner = file_metadata.at[key].owner
        /\ file_metadata'.at[key].size >= file_metadata.at[key].size

\* C4 (end): createdAt and owner are those of the first supplied commit whose
\* in-scope (clustered) file list contains the key.
C4_FirstCommitWins ==
    AnalysisReturned =>
        LET table == TouchTable(Len(supplied))
        IN  \A key \in DOMAIN file_metadata.at :
                /\ Touching(table, key) # {}
                /\ LET first == supplied[Min(Touching(table, key))]
                   IN  /\ file_metadata.at[key].createdAt = first.timestamp
                       /\ file_metadata.at[key].owner = first.author

\* C4: once a metadata entry is created its createdAt and owner never change and
\* its size never decreases; at the end they are the timestamp and author of the
\* first commit, in supplied order, that touches the key. (The state in which
\* analyze_history returns is left by the step that assembles the graph, so the
\* end condition is read in the state a step starts from.)
C4_FixedAtCreation == [][C4_EntryKept /\ C4_FirstCommitWins]_vars

\* a key touched twice, the second time by a commit with an earlier timestamp
C4_Witness ==
    /\ AnalysisReturned
    /\ \E key \in DOMAIN file_metadata.at :
          /\ file_metadata.at[key].size >= 2
          /\ \E k \in Touching(TouchTable(Len(supplied)), key) :
                supplied[k].timestamp < file_metadata.at[key].createdAt

(* C5 *)

\* the distinct paths the main loop of the call treats as in-scope
InScopePaths == UNION {ScopedFiles(k) : k \in 1..Len(supplied)}

\* C5: clustering is active in a call exactly when more than 150 distinct paths
\* survive the scope and metadata-directory filter of the main loop; with
\* clustering inactive the result has at most 150 nodes.
C5_ClusteringIffOver150 ==
    (variant = "api" /\ pc \in {"loop", "done"} /\ io \in {"ok", "walker_failed"}) =>
        /\ USE_CLUSTERING <=> Cardinality(InScopePaths) > ClusterThreshold
        /\ (AnalysisReturned /\ ~USE_CLUSTERING) =>
               Cardinality(DOMAIN file_metadata.at) <= ClusterThreshold

(* C6 *)

\* C6: with clustering active, an in-scope path lying in a subdirectory of scope
\* is represented only by the node of that first-level subdirectory, a direct
\* child of scope is its own node, and a commit adds exactly 1 to the size of
\* each node it touches, however many files of the subdirectory it lists.
C6_ClustersCollapse ==
    (variant = "api" /\ pc \in {"loop", "done"} /\ USE_CLUSTERING) =>
        LET table == TouchTable(idx)
            seen == UNION {ScopedFiles(k) : k \in 1..idx}
        IN  /\ \A f \in seen :
                  IF Nested(f, subpath)
                  THEN f \notin DOMAIN file_metadata.at
                       /\ NodeOf(f) \in DOMAIN file_metadata.at
                       /\ ~Nested(NodeOf(f), subpath)
                  ELSE f \in DOMAIN file_metadata.at
            /\ DOMAIN file_metadata.at = {NodeOf(f) : f \in seen}
            /\ \A key \in DOMAIN file_metadata.at :
                  file_metadata.at[key].size = Cardinality(Touching(table, key))

\* clustering is active under scope "src", a commit listed several files of one
\* subdirectory, and a direct child of scope is a node beside the cluster
C6_Witness ==
    /\ AnalysisReturned
    /\ USE_CLUSTERING
    /\ subpath = <<"s", "r", "c">>
    /\ \E k \in 1..idx : \E f, g \in ScopedFiles(k) :
          f # g /\ Nested(f, subpath) /\ NodeOf(f) = NodeOf(g)
    /\ \E key \in DOMAIN file_metadata.at :
          key \in InScopePaths /\ ~Nested(key, subpath)

(* C7 *)

\* C7 (keys): a key equals scope or begins with scope + "/" when scope is not
\* empty, and no key is ".git" or lies under ".git/".
C7_KeysInScope ==
    variant = "api" =>
        \A key \in DOMAIN file_metadata.at :
            /\ subpath # <<>> =>
                   (key = subpath \/ StartsWith(key, subpath \o <<"/">>))
            /\ ~InGitDir(key)

\* C7 (skipped commits): a commit with no in-scope file changes neither map.
C7_SkippedAddsNothing ==
    (variant = "api" /\ pc = "loop" /\ idx < Len(commits)
         /\ idx' = idx + 1 /\ ScopedFiles(idx + 1) = {}) =>
        (file_metadata' = file_metadata /\ couplings' = couplings)

\* C7: every key of the metadata map of src/api/index.py's analyze_history lies
\* in scope, a path that only shares scope as a string prefix is never a key, no
\* key is ".git" or under ".git/", and a commit left with no in-scope file adds
\* nothing to either map.
C7_ScopeRespected == [][C7_SkippedAddsNothing /\ C7_KeysInScope']_vars

\* under scope "src" the analysis returned nodes although the commits also listed
\* "srcx" and a path under ".git/", and one commit had no in-scope file at all
C7_Witness ==
    /\ AnalysisReturned
    /\ variant = "api"
    /\ subpath = <<"s", "r", "c">>
    /\ DOMAIN file_metadata.at # {}
    /\ \E k \in 1..Len(supplied) : <<"s", "r", "c", "x">> \in ToSet(supplied[k].files)
    /\ \E k \in 1..Len(supplied) :
          <<".", "g", "i", "t", "/", "x">> \in ToSet(supplied[k].files)
    /\ \E k \in 1..Len(supplied) :
          supplied[k].files # <<>> /\ ScopedFiles(k) = {}

(* C8 *)

\* the coupling entries whose two endpoints are metadata keys
Eligible ==
    {pair \in DOMAIN couplings.at :
        pair[1] \in DOMAIN file_metadata.at /\ pair[2] \in DOMAIN file_metadata.at}

\* C8: generate_json emits exactly one node per metadata entry and exactly one
\* link per coupling entry whose two endpoints are metadata keys (the others
\* are dropped); a link's weight is the coupling count and its createdAt the
\* larger of its endpoints' createdAt, so not smaller than either.
C8_GraphMirrorsTables ==
    (pc = "done" /\ response.kind = "graph") =>
        LET nodes == response.nodes
            links == response.links
        IN  /\ Len(nodes) = Cardinality(DOMAIN file_metadata.at)
            /\ {nodes[n].id : n \in 1..Len(nodes)} = DOMAIN file_metadata.at
            /\ Len(links) = Cardinality(Eligible)
            /\ {<<links[n].source, links[n].target>> : n \in 1..Len(links)} = Eligible
            /\ \A n \in 1..Len(links) :
                  LET a == file_metadata.at[links[n].source].createdAt
                      b == file_metadata.at[links[n].target].createdAt
                  IN  /\ links[n].weight = couplings.at[<<links[n].source, links[n].target>>]
                      /\ links[n].createdAt \in {a, b}
                      /\ links[n].createdAt >= a
                      /\ links[n].createdAt >= b

\* a graph was assembled from a coupling table with an entry whose endpoint is
\* missing and an entry whose endpoints were created at different times
C8_Witness ==
    /\ pc = "done"
    /\ response.kind = "graph"
    /\ DOMAIN couplings.at \ Eligible # {}
    /\ \E n \in 1..Len(response.links) :
          file_metadata.at[response.links[n].source].createdAt
              # file_metadata.at[response.links[n].target].createdAt

(* C9 *)

\* C9: a failure of the commit-supplying I/O layer is reported to the caller as
\* an error outcome, never answered with a graph.
C9_IoFailureReported ==
    (pc = "done" /\ io \in {"no_dulwich", "clone_failed", "repo_failed",
                             "walker_failed", "log_failed"}) =>
        response.kind = "error"

(* C10 *)

\* C10: analyze_history leaves the supplied commit sequence unchanged: every
\* record has the same fields and the same file list in the same order.
C10_CommitsUnchanged == AnalysisReturned => commits = supplied

(* C11 *)

\* the final segment of a path
FinalSegment(p) ==
    LET slashes == {i \in 1..Len(p) : p[i] = "/"}
    IN  IF slashes = {} THEN p
        ELSE SubSeq(p, (CHOOSE i \in slashes : \A j \in slashes : j <= i) + 1, Len(p))

HasDot(sg) == \E i \in 1..Len(sg) : sg[i] = "."

\* the text after the last '.' of a segment that has one
AfterLastDot(sg) ==
    LET dots == {i \in 1..Len(sg) : sg[i] = "."}
    IN  SubSeq(sg, (CHOOSE i \in dots : \A j \in dots : j <= i) + 1, Len(sg))

\* entirely upper-case: it has letters and none of them is lower-case
EntirelyUpper(sg) ==
    /\ \E i \in 1..Len(sg) : \E k \in 1..Len(UpperCase) : sg[i] = UpperCase[k]
    /\ ~\E i \in 1..Len(sg) : \E k \in 1..Len(LowerCase) : sg[i] = LowerCase[k]

\* the table's tag for an extension written without its dot, OTHER if unmapped
TagOf(e) ==
    LET rows == {k \in 1..Len(ExtMapping) : ExtMapping[k][1] = <<".">> \o e}
    IN  IF rows = {} THEN "OTHER" ELSE ExtMapping[CHOOSE k \in rows : TRUE][2]

\* the tag the rule gives a path
RuleTag(p) ==
    LET sg == FinalSegment(p)
    IN  IF ~HasDot(sg)
        THEN IF EntirelyUpper(sg) THEN "CONFIG" ELSE "FOLDER"
        ELSE TagOf(Lower(AfterLastDot(sg)))

\* C11: get_file_type gives every path the tag of the rule: without an
\* extension in the final segment CONFIG for an entirely upper-case base name
\* and FOLDER otherwise; with an extension (the text after the last '.' of the
\* final segment, lower-cased) the table's tag, or OTHER when unmapped; also
\* for dot-leading names such as ".gitignore", and in both copies.
C11_TagFollowsRule ==
    (pc = "done" /\ response.kind = "graph") =>
        \A n \in 1..Len(response.nodes) :
            response.nodes[n].type = RuleTag(response.nodes[n].id)

====
